---------------------------- MODULE Spec2Model ----------------------------
(***************************************************************************)
(* A model of the Pepe Unchained question-answering bot: the per-chat      *)
(* message handler of src/telegramBot.js (conversation context, follow-up  *)
(* offers, price short-circuit, error branches) and the chunker of         *)
(* src/dataProcessor.js.  Text is modelled by TLA+ strings, on which TLC   *)
(* evaluates Len, \o and SubSeq; the JavaScript string methods the code    *)
(* uses are defined from these.                                            *)
(***************************************************************************)
EXTENDS Integers, Sequences, FiniteSets, TLC

(***************************************************************************)
(* JavaScript string primitives                                            *)
(***************************************************************************)
Char(s, i) == SubSeq(s, i, i)

UpperLetters == "ABCDEFGHIJKLMNOPQRSTUVWXYZ"
LowerLetters == "abcdefghijklmnopqrstuvwxyz"

ToLowerChar(c) ==
  IF \E i \in 1..Len(UpperLetters) : Char(UpperLetters, i) = c
  THEN Char(LowerLetters, CHOOSE i \in 1..Len(UpperLetters) : Char(UpperLetters, i) = c)
  ELSE c

RECURSIVE ToLowerFrom(_, _)
ToLowerFrom(s, i) ==
  IF i > Len(s) THEN "" ELSE ToLowerChar(Char(s, i)) \o ToLowerFrom(s, i + 1)

\* String.prototype.toLowerCase
ToLowerCase(s) == ToLowerFrom(s, 1)

\* String.prototype.includes
Includes(s, sub) ==
  \E i \in 0..(Len(s) - Len(sub)) : SubSeq(s, i + 1, i + Len(sub)) = sub

\* String.prototype.startsWith
StartsWith(s, p) == Len(p) <= Len(s) /\ SubSeq(s, 1, Len(p)) = p

WhiteSpace == {" "}
IsSpace(c) == c \in WhiteSpace

RECURSIVE TrimStart(_)
TrimStart(s) ==
  IF Len(s) > 0 /\ IsSpace(Char(s, 1)) THEN TrimStart(SubSeq(s, 2, Len(s))) ELSE s

RECURSIVE TrimEnd(_)
TrimEnd(s) ==
  IF Len(s) > 0 /\ IsSpace(Char(s, Len(s))) THEN TrimEnd(SubSeq(s, 1, Len(s) - 1)) ELSE s

\* String.prototype.trim
Trim(s) == TrimEnd(TrimStart(s))

\* s.split(' '): one piece per separating space, empty pieces kept
RECURSIVE SplitSpaceFrom(_, _, _)
SplitSpaceFrom(s, i, cur) ==
  IF i > Len(s) THEN <<cur>>
  ELSE IF Char(s, i) = " " THEN <<cur>> \o SplitSpaceFrom(s, i + 1, "")
  ELSE SplitSpaceFrom(s, i + 1, cur \o Char(s, i))

SplitSpace(s) == SplitSpaceFrom(s, 1, "")

\* s.split(/\s+/): a run of whitespace is one separator
RECURSIVE SkipSpaces(_, _)
SkipSpaces(s, i) == IF i <= Len(s) /\ IsSpace(Char(s, i)) THEN SkipSpaces(s, i + 1) ELSE i

RECURSIVE SplitWsFrom(_, _, _)
SplitWsFrom(s, i, cur) ==
  IF i > Len(s) THEN <<cur>>
  ELSE IF IsSpace(Char(s, i)) THEN <<cur>> \o SplitWsFrom(s, SkipSpaces(s, i), "")
  ELSE SplitWsFrom(s, i + 1, cur \o Char(s, i))

SplitWs(s) == SplitWsFrom(s, 1, "")

\* Array.prototype.join(' ')
RECURSIVE JoinSpace(_)
JoinSpace(ws) ==
  IF Len(ws) = 0 THEN ""
  ELSE IF Len(ws) = 1 THEN ws[1]
  ELSE ws[1] \o " " \o JoinSpace(Tail(ws))

\* Array.prototype.slice(-n): the last n elements; slice(-0) is slice(0), the whole array
SliceLast(ws, n) ==
  IF n = 0 \/ n >= Len(ws) THEN ws ELSE SubSeq(ws, Len(ws) - n + 1, Len(ws))

\* Array.prototype.includes
SeqIncludes(ws, w) == \E i \in 1..Len(ws) : ws[i] = w


(***************************************************************************)
(* Bounds of the chunker's inputs                                          *)
(***************************************************************************)
MaxTextLen == 5
MaxChunkSize == 3

VARIABLES
  ckText,      \* chunkText: the text argument
  ckMax,       \* chunkText: maxChunkSize
  ckOverlap,   \* chunkText: overlap
  ckSentences, \* chunkText: sentences
  ckIdx,       \* chunkText: index of the next sentence of the for loop
  ckCur,       \* chunkText: currentChunk
  ckChunks,    \* chunkText: chunks
  ckMeta,      \* history: for each pushed chunk, how its buffer was built
  ckCurMeta,   \* history: how currentChunk was built
  ckPc         \* chunkText: "idle", "loop" or "done"

chunkVars ==
  <<ckText, ckMax, ckOverlap, ckSentences, ckIdx, ckCur, ckChunks, ckMeta, ckCurMeta, ckPc>>

(***************************************************************************)
(* DataProcessor.chunkText                                                 *)
(***************************************************************************)
Terminators == {".", "!", "?"}
IsTerminator(c) == c \in Terminators

\* the first index >= i of s whose character is not a terminator (Len(s)+1 if none)
RECURSIVE SkipTerminators(_, _)
SkipTerminators(s, i) ==
  IF i <= Len(s) /\ IsTerminator(Char(s, i)) THEN SkipTerminators(s, i + 1) ELSE i

\* the first index >= i of s whose character is a terminator (Len(s)+1 if none)
RECURSIVE SkipNonTerminators(_, _)
SkipNonTerminators(s, i) ==
  IF i <= Len(s) /\ ~IsTerminator(Char(s, i)) THEN SkipNonTerminators(s, i + 1) ELSE i

\* text.match(/[^.!?]+[.!?]+/g) from index i: greedy, leftmost, non-overlapping
RECURSIVE MatchSentencesFrom(_, _)
MatchSentencesFrom(s, i) ==
  LET p == SkipTerminators(s, i)
      q == SkipNonTerminators(s, p)
      r == SkipTerminators(s, q)
  IN IF p > Len(s) \/ q > Len(s) THEN <<>>
     ELSE <<SubSeq(s, p, r - 1)>> \o MatchSentencesFrom(s, r)

\* text.match(/[^.!?]+[.!?]+/g) || [text]
SplitSentences(text) ==
  IF MatchSentencesFrom(text, 1) = <<>> THEN <<text>> ELSE MatchSentencesFrom(text, 1)

\* Math.floor(overlap / 10)
OverlapWordCount(overlap) == overlap \div 10

\* overlapWords.join(' ') + ' ' + sentence
SeedChunk(currentChunk, overlap, sentence) ==
  JoinSpace(SliceLast(SplitSpace(currentChunk), OverlapWordCount(overlap))) \o " " \o sentence

\* (currentChunk + sentence).length > maxChunkSize && currentChunk
Overflows(currentChunk, sentence, maxChunkSize) ==
  Len(currentChunk \o sentence) > maxChunkSize /\ currentChunk # ""

ChunkAlphabet == {"a", " ", "."}

RECURSIVE StringsUpTo(_)
StringsUpTo(n) ==
  IF n = 0 THEN {""}
  ELSE LET S == StringsUpTo(n - 1) IN S \cup {s \o c : s \in S, c \in ChunkAlphabet}

ChunkTexts == StringsUpTo(MaxTextLen)
ChunkSizes == 1..MaxChunkSize
ChunkOverlaps == {0, 10, 20}

\* closed, trigger: the buffer closed by the last overflow and the sentence
\* that triggered it
EmptyMeta == [units |-> 0, seeded |-> FALSE, closed |-> "", trigger |-> ""]

ChunkIdle ==
  /\ ckText = "" /\ ckMax = 0 /\ ckOverlap = 0 /\ ckSentences = <<>> /\ ckIdx = 0
  /\ ckCur = "" /\ ckChunks = <<>> /\ ckMeta = <<>> /\ ckCurMeta = EmptyMeta
  /\ ckPc = "idle"

\* chunkText(text, maxChunkSize, overlap) entered: lines 180-183
ChunkInit ==
  /\ ckText \in ChunkTexts
  /\ ckMax \in ChunkSizes
  /\ ckOverlap \in ChunkOverlaps
  /\ ckSentences = SplitSentences(ckText)
  /\ ckIdx = 1
  /\ ckCur = ""
  /\ ckChunks = <<>>
  /\ ckMeta = <<>>
  /\ ckCurMeta = EmptyMeta
  /\ ckPc = "loop"

\* one iteration of the for loop: lines 185-195
ChunkLoopStep ==
  /\ ckPc = "loop"
  /\ ckIdx <= Len(ckSentences)
  /\ LET sentence == ckSentences[ckIdx] IN
     IF Overflows(ckCur, sentence, ckMax)
     THEN /\ ckChunks' = Append(ckChunks, Trim(ckCur))
          /\ ckMeta' = Append(ckMeta, ckCurMeta)
          /\ ckCur' = SeedChunk(ckCur, ckOverlap, sentence)
          /\ ckCurMeta' = [units |-> 1, seeded |-> TRUE, closed |-> ckCur, trigger |-> sentence]
     ELSE /\ ckCur' = ckCur \o sentence
          /\ ckCurMeta' = [ckCurMeta EXCEPT !.units = @ + 1]
          /\ UNCHANGED <<ckChunks, ckMeta>>
  /\ ckIdx' = ckIdx + 1
  /\ UNCHANGED <<ckText, ckMax, ckOverlap, ckSentences, ckPc>>

\* after the loop: lines 197-201
ChunkFinish ==
  /\ ckPc = "loop"
  /\ ckIdx > Len(ckSentences)
  /\ IF Trim(ckCur) # ""
     THEN /\ ckChunks' = Append(ckChunks, Trim(ckCur))
          /\ ckMeta' = Append(ckMeta, ckCurMeta)
     ELSE UNCHANGED <<ckChunks, ckMeta>>
  /\ ckPc' = "done"
  /\ UNCHANGED <<ckText, ckMax, ckOverlap, ckSentences, ckIdx, ckCur, ckCurMeta>>


(***************************************************************************)
(* DataProcessor.processData                                               *)
(***************************************************************************)
MaxPages == 2
MaxChunksPerPage == 2

\* cleanedContent.length < 50: line 274
MinContentLength == 50

VARIABLES
  pdRaw,  \* processData: rawData, each page with the result of cleanText on its content
  pdIdx,  \* processData: index of the next page of the for loop
  pdOut,  \* processData: processedData
  pdPc    \* "idle", "load", "pages" or "done"

processVars == <<pdRaw, pdIdx, pdOut, pdPc>>

\* one entry of getManualKnowledgeEntries (scrapedAt left out): lines 215-249
ManualEntry(url, title, content) ==
  [url |-> url, title |-> title, source |-> "manual", chunkIndex |-> 0, totalChunks |-> 1,
   content |-> content, contentLength |-> Len(content)]

\* getManualKnowledgeEntries: lines 213-250
getManualKnowledgeEntries ==
  <<
   ManualEntry("https://pepuscan.com",
               "PepuScan - Pepe Unchained Block Explorer",
               "PepuScan is the official block explorer for Pepe Unchained. You " \o
               "can use PepuScan (pepuscan.com) to view transactions, blocks, ad" \o
               "dresses, smart contracts, and all on-chain activity on the Pepe " \o
               "Unchained network. It works similar to Etherscan but for the Pep" \o
               "e Unchained Layer 2 blockchain. You can search for transaction h" \o
               "ashes, wallet addresses, contract addresses, and block numbers t" \o
               "o see detailed information about network activity."),
   ManualEntry("https://pepeunchained.com",
               "Pepe Unchained Key Information",
               "Pepe Unchained is an EVM-compatible Layer 2 blockchain built on " \o
               "Ethereum. Key features: Very low gas fees compared to Ethereum m" \o
               "ainnet, fast transaction speeds, supports all Ethereum tools and" \o
               " wallets like MetaMask. PEPU is the native token. The network ha" \o
               "s a DEX for trading, bridge functionality to move assets between" \o
               " Ethereum and Pepe Unchained, staking capabilities for PEPU toke" \o
               "ns, and PepuScan block explorer for viewing on-chain data."),
   ManualEntry("https://pepeunchained.com",
               "Pump Pad - Launch Your Meme Coin",
               "Pump Pad is a platform on Pepe Unchained that allows users to la" \o
               "unch their own meme coins. It is part of the Pepe Unchained ecos" \o
               "ystem and integrates with the Layer 2 blockchain infrastructure." \o
               " Pump Pad enables creators to launch meme coins on the Pepe Unch" \o
               "ained network, taking advantage of the low gas fees and fast tra" \o
               "nsaction speeds. It is featured on the main Pepe Unchained websi" \o
               "te as one of the key products in the ecosystem.")
  >>

\* extractMetadata (scrapedAt left out): lines 204-211
extractMetadata(page) ==
  [url |-> page.url, title |-> page.title,
   source |-> IF Includes(page.url, "guide.pepeunchained.com") THEN "guide" ELSE "main"]

\* the pages of scraped_content.json: one of the main site, one of the guide,
\* and one whose cleaned content is shorter than 50 characters
RawPages ==
  {[url |-> "https://pepeunchained.com", title |-> "Pepe Unchained",
    cleanedContent |-> "Pepe Unchained is a Layer 2 blockchain. PEPU is the native token."],
   [url |-> "https://guide.pepeunchained.com/staking", title |-> "Staking Guide",
    cleanedContent |-> "Stake PEPU tokens in the staking app. Rewards are paid every block."],
   [url |-> "https://guide.pepeunchained.com/faq", title |-> "FAQ",
    cleanedContent |-> "Coming soon."]}

RECURSIVE PageSeqsUpTo(_)
PageSeqsUpTo(n) ==
  IF n = 0 THEN {<<>>}
  ELSE LET S == PageSeqsUpTo(n - 1) IN S \cup {Append(ps, p) : ps \in S, p \in RawPages}

\* what chunkText(cleanedContent) can return for a page: trimmed, non-empty chunks
PageChunkContents == {"Stake PEPU tokens in the staking app.", "Rewards are paid every block."}

RECURSIVE PageChunksUpTo(_)
PageChunksUpTo(n) ==
  IF n = 0 THEN {<<>>}
  ELSE LET S == PageChunksUpTo(n - 1) IN S \cup {Append(cs, c) : cs \in S, c \in PageChunkContents}

ChunkOutcomes == PageChunksUpTo(MaxChunksPerPage) \ {<<>>}

ProcessIdle == pdRaw = <<>> /\ pdIdx = 0 /\ pdOut = <<>> /\ pdPc = "idle"

\* processData entered, loadScrapedData has returned rawData: line 257
ProcessInit ==
  /\ pdRaw \in PageSeqsUpTo(MaxPages)
  /\ pdIdx = 0
  /\ pdOut = <<>>
  /\ pdPc = "load"

\* lines 259-269: [] without scraped data, else the manual entries go first
ProcessLoad ==
  /\ pdPc = "load"
  /\ IF Len(pdRaw) = 0
     THEN pdOut' = <<>> /\ pdPc' = "done" /\ UNCHANGED pdIdx
     ELSE pdOut' = getManualKnowledgeEntries /\ pdPc' = "pages" /\ pdIdx' = 1
  /\ UNCHANGED pdRaw

\* one iteration of the loop over the pages, lines 271-290; chunks is what
\* chunkText returns for the cleaned content of the page
ProcessPage(chunks) ==
  /\ pdPc = "pages"
  /\ pdIdx <= Len(pdRaw)
  /\ LET page == pdRaw[pdIdx]
         metadata == extractMetadata(page)
     IN pdOut' =
          IF Len(page.cleanedContent) < MinContentLength THEN pdOut
          ELSE pdOut \o [i \in 1..Len(chunks) |->
                 [url |-> metadata.url, title |-> metadata.title, source |-> metadata.source,
                  chunkIndex |-> i - 1, totalChunks |-> Len(chunks),
                  content |-> chunks[i], contentLength |-> Len(chunks[i])]]
  /\ pdIdx' = pdIdx + 1
  /\ UNCHANGED <<pdRaw, pdPc>>

\* lines 292-306: the corpus is written and returned
ProcessSave ==
  /\ pdPc = "pages"
  /\ pdIdx > Len(pdRaw)
  /\ pdPc' = "done"
  /\ UNCHANGED <<pdRaw, pdIdx, pdOut>>


(***************************************************************************)
(* TelegramAIBot: the classifiers of a message text                        *)
(***************************************************************************)
Null == "null"

\* patterns.some(p => s === p || s.startsWith(p + ' '))
MatchesPhrase(s, patterns) ==
  \E i \in 1..Len(patterns) : s = patterns[i] \/ StartsWith(s, patterns[i] \o " ")

\* s.match(/^(p1|p2|...)/)
StartsWithAny(s, patterns) == \E i \in 1..Len(patterns) : StartsWith(s, patterns[i])

\* keywords.some(k => s.includes(k))
IncludesAny(s, keywords) == \E i \in 1..Len(keywords) : Includes(s, keywords[i])

\* /^p.+/ : s starts with p and at least one more character follows
StartsWithThenSome(s, p) == StartsWith(s, p) /\ Len(s) > Len(p)

\* /p.+/ : p occurs in s with at least one more character after it
IncludesThenSome(s, p) ==
  \E i \in 0..(Len(s) - Len(p) - 1) : SubSeq(s, i + 1, i + Len(p)) = p

\* /p.+q/ : p occurs in s, then at least one character, then q
IncludesThenSomeThen(s, p, q) ==
  \E i \in 0..(Len(s) - Len(p) - 1) :
     /\ SubSeq(s, i + 1, i + Len(p)) = p
     /\ Includes(SubSeq(s, i + Len(p) + 2, Len(s)), q)

Greetings ==
  <<"hey", "hi", "hello", "hey there", "hi there", "heyy", "hii", "sup", "whats up", "yo">>
ThanksPrefixes == <<"thanks", "thank you", "thx", "ty", "appreciate it">>
FarewellPrefixes == <<"bye", "goodbye", "see ya", "later", "cya">>
SmallTalkPrefixes ==
  <<"how are you", "hows it going", "how's it going", "whats up", "what's up", "wassup">>

\* handleGreeting: which canned response the message gets, or Null
handleGreeting(message) ==
  LET lowerMessage == Trim(ToLowerCase(message)) IN
  IF MatchesPhrase(lowerMessage, Greetings) THEN "greeting"
  ELSE IF StartsWithAny(lowerMessage, ThanksPrefixes) THEN "thanks"
  ELSE IF StartsWithAny(lowerMessage, FarewellPrefixes) THEN "farewell"
  ELSE IF StartsWithAny(lowerMessage, SmallTalkPrefixes) THEN "smalltalk"
  ELSE Null

PriceKeywords ==
  <<"price", "pric", "cost", "worth", "value", "market cap", "marketcap", "mc",
    "market capitalization", "volume", "liquidity", "trading", "chart">>
PepuKeywords == <<"pepu", "pepe unchained", "token">>

isPriceQuestion(text) ==
  LET lowerText == ToLowerCase(text) IN
  /\ IncludesAny(lowerText, PriceKeywords)
  /\ \/ IncludesAny(lowerText, PepuKeywords)
     \/ Includes(lowerText, "what")
     \/ Includes(lowerText, "how much")

TokenKeywords ==
  <<"token", "pepu", "price", "cost", "worth", "value", "trading", "market">>

isTokenQuestion(text) == IncludesAny(ToLowerCase(text), TokenKeywords)

YesPatterns ==
  <<"yes", "yeah", "yep", "yup", "sure", "ok", "okay", "yea", "ya", "definitely", "absolutely">>
NoPatterns == <<"no", "nope", "nah", "not really", "not interested">>

isYesResponse(text) == MatchesPhrase(Trim(ToLowerCase(text)), YesPatterns)

isNoResponse(text) == MatchesPhrase(Trim(ToLowerCase(text)), NoPatterns)

QuestionIndicators ==
  <<"what", "how", "when", "where", "why", "who", "tell me", "explain", "can you", "do you">>

isNewQuestion(text) ==
  Includes(text, "?") \/ StartsWithAny(Trim(ToLowerCase(text)), QuestionIndicators)

\* simplePatterns.some(pattern => pattern.test(lowerQuery))
MatchesSimplePattern(q) ==
  \/ StartsWithThenSome(q, "what is ")
  \/ \E p \in {"what's ", "whats "} :
        StartsWithThenSome(q, p) /\ Includes(SubSeq(q, Len(p) + 2, Len(q)), "?")
  \/ StartsWithThenSome(q, "tell me about ")
  \/ StartsWithThenSome(q, "explain ")
  \/ StartsWithThenSome(q, "who is ")
  \/ StartsWithThenSome(q, "when is ")
  \/ StartsWithThenSome(q, "where is ")

\* complexPatterns.some(pattern => pattern.test(lowerQuery))
MatchesComplexPattern(q) ==
  \/ IncludesThenSome(q, "how to ")
  \/ IncludesThenSomeThen(q, "how does ", " work")
  \/ Includes(q, "what is the difference between")
  \/ IncludesThenSome(q, "compare ")
  \/ IncludesThenSome(q, "why does ")
  \/ Includes(q, "what are the steps")
  \/ IncludesThenSome(q, "how do i ")

\* detectQuestionType as it would be with the complex patterns tested first
detectQuestionTypeComplexFirst(query) ==
  LET lowerQuery == ToLowerCase(query) IN
  IF MatchesComplexPattern(lowerQuery) THEN "complex"
  ELSE IF MatchesSimplePattern(lowerQuery) THEN "simple"
  ELSE "medium"

detectQuestionType(query) ==
  LET lowerQuery == ToLowerCase(query) IN
  IF MatchesSimplePattern(lowerQuery) THEN "simple"
  ELSE IF MatchesComplexPattern(lowerQuery) THEN "complex"
  ELSE "medium"

VARIABLES
  dqQuery,  \* detectQuestionType: query
  dqType,   \* detectQuestionType: the value returned
  dqPc,     \* "idle", "call", "done" or "requested"
  dqTopK,          \* processQuery: topK for the query
  dqFallbackTopK   \* getFallbackAnswer: topK for the query

classifyVars == <<dqQuery, dqType, dqPc, dqTopK, dqFallbackTopK>>

\* a lead, a body and an optional question mark
ClassifyQueries ==
  LET leads == {"What is ", "what's ", "Tell me about ", "Explain ", "How do I ", "Compare ",
                "Why does ", "What are the steps ", "Can I ", ""}
      bodies == {"PEPU", "staking options", "stake PEPU tokens", "how to bridge",
                 "the difference between", ""}
      ends == {"", "?"}
  IN {lead \o body \o end : lead \in leads, body \in bodies, end \in ends}

ClassifyIdle ==
  dqQuery = "" /\ dqType = "" /\ dqPc = "idle" /\ dqTopK = 0 /\ dqFallbackTopK = 0

\* detectQuestionType(query) called
ClassifyInit ==
  dqQuery \in ClassifyQueries /\ dqType = "" /\ dqPc = "call" /\ dqTopK = 0 /\ dqFallbackTopK = 0

\* detectQuestionType returns: lines 337-367
Classify ==
  /\ dqPc = "call"
  /\ dqType' = detectQuestionType(dqQuery)
  /\ dqPc' = "done"
  /\ UNCHANGED <<dqQuery, dqTopK, dqFallbackTopK>>

\* questionType === 'simple' ? 1 : questionType === 'medium' ? 2 : 3
TopKFor(query) ==
  LET questionType == detectQuestionType(query) IN
  IF questionType = "simple" THEN 1 ELSE IF questionType = "medium" THEN 2 ELSE 3

\* FallbackTopKFor as it would be if the fallback always asked for one chunk
FallbackTopKOne(query) == 1

\* the same choice in getFallbackAnswer: lines 375-376
FallbackTopKFor(query) ==
  LET questionType == detectQuestionType(query) IN
  IF questionType = "simple" THEN 1 ELSE IF questionType = "medium" THEN 2 ELSE 3

\* processQuery (lines 456-457) and getFallbackAnswer (lines 375-376) choose
\* topK for the query
RequestTopK ==
  /\ dqPc = "done"
  /\ dqTopK' = TopKFor(dqQuery)
  /\ dqFallbackTopK' = FallbackTopKFor(dqQuery)
  /\ dqPc' = "requested"
  /\ UNCHANGED <<dqQuery, dqType>>


(***************************************************************************)
(* TelegramAIBot.extractMainTopic                                          *)
(***************************************************************************)
Topics ==
  <<"pepuscan", "block explorer", "explorer", "scan",
    "staking", "bridge", "pump pad", "pumppad",
    "fees", "gas", "transactions", "wallet", "trading",
    "roadmap", "features", "ecosystem", "applications",
    "dex", "blockchain", "network">>

\* the topics whose match is dropped for a "how do i use" query (line 550)
HowToSkippedTopics == {"token", "dex", "blockchain"}

QuestionWords ==
  {"what", "how", "when", "where", "why", "who", "is", "are", "does", "do", "can",
   "will", "tell", "me", "about", "more", "use", "the", "on"}

GenericWords == {"token", "dex", "blockchain", "network", "pepe", "unchained"}

\* words.filter(w => !questionWords.includes(w) && w.length > 3)
\*      .filter(w => !genericWords.includes(w))
RECURSIVE SpecificWords(_)
SpecificWords(words) ==
  IF Len(words) = 0 THEN <<>>
  ELSE (IF /\ words[1] \notin QuestionWords
           /\ Len(words[1]) > 3
           /\ words[1] \notin GenericWords
        THEN <<words[1]>> ELSE <<>>) \o SpecificWords(Tail(words))

\* FirstTopicIndex as it would be if only the query were searched
FirstTopicIndexInQuery(lowerQuery, lowerAnswer) ==
  IF \E i \in 1..Len(Topics) : Includes(lowerQuery, Topics[i])
  THEN CHOOSE i \in 1..Len(Topics) :
         /\ Includes(lowerQuery, Topics[i])
         /\ \A j \in 1..(i - 1) : ~Includes(lowerQuery, Topics[j])
  ELSE 0

\* the first topic of the list found in the query or the answer, 0 if none
FirstTopicIndex(lowerQuery, lowerAnswer) ==
  IF \E i \in 1..Len(Topics) : Includes(lowerQuery, Topics[i]) \/ Includes(lowerAnswer, Topics[i])
  THEN CHOOSE i \in 1..Len(Topics) :
         /\ Includes(lowerQuery, Topics[i]) \/ Includes(lowerAnswer, Topics[i])
         /\ \A j \in 1..(i - 1) :
               ~(Includes(lowerQuery, Topics[j]) \/ Includes(lowerAnswer, Topics[j]))
  ELSE 0

extractMainTopic(query, answer) ==
  LET lowerQuery == ToLowerCase(query)
      lowerAnswer == ToLowerCase(answer)
      first == FirstTopicIndex(lowerQuery, lowerAnswer)
      specificWords == SpecificWords(SplitWs(lowerQuery))
  IN IF first # 0
     THEN IF Topics[first] \in HowToSkippedTopics /\ Includes(lowerQuery, "how do i use")
          THEN Null
          ELSE Topics[first]
     ELSE IF Len(specificWords) > 0 THEN specificWords[1] ELSE Null

VARIABLES
  tpQuery,   \* extractMainTopic: query
  tpAnswer,  \* extractMainTopic: answer
  tpTopic,   \* the value returned
  tpPc       \* "idle", "call" or "done"

topicVars == <<tpQuery, tpAnswer, tpTopic, tpPc>>

TopicQueries ==
  {"How do I use the DEX?", "how do i use the blockchain explorer", "How do I use the blockchain?",
   "What is the block explorer?", "Tell me about PepuScan", "staking rewards",
   "What are the gas fees?", "who made pepe unchained", "What about governance voting?",
   "is it fast", "what is it", "Where is the network token", "can the dex swap memecoins"}

TopicAnswers ==
  {"", "You can bridge assets in the app.", "Use the DEX for trading.", "Happy to help.",
   "PepuScan is the block explorer of the network."}

TopicIdle == tpQuery = "" /\ tpAnswer = "" /\ tpTopic = Null /\ tpPc = "idle"

\* extractMainTopic(query, answer) called
TopicInit ==
  tpQuery \in TopicQueries /\ tpAnswer \in TopicAnswers /\ tpTopic = Null /\ tpPc = "call"

\* extractMainTopic returns: lines 533-570
ExtractTopic ==
  /\ tpPc = "call"
  /\ tpTopic' = extractMainTopic(tpQuery, tpAnswer)
  /\ tpPc' = "done"
  /\ UNCHANGED <<tpQuery, tpAnswer>>

\* the yes branch's follow-up query for a topic: lines 117-130
FollowUpQuery(lastTopic) ==
  IF lastTopic \in {"token", "pepu"} THEN "What can I do with PEPU token?"
  ELSE IF lastTopic = "staking" THEN "How do I stake PEPU tokens?"
  ELSE IF lastTopic = "bridge" THEN "How do I bridge assets to Pepe Unchained?"
  ELSE IF lastTopic = "dex" THEN "How do I use the DEX on Pepe Unchained?"
  ELSE IF lastTopic \in {"explorer", "pepuscan"} THEN "What is PepuScan and how do I use it?"
  ELSE "Tell me more about " \o lastTopic

(***************************************************************************)
(* AIAgent.findRelevantChunks                                              *)
(***************************************************************************)
\* A query word is used as the source of a regular expression.  Of the regular
\* expression syntax the model knows the characters of its texts: a literal
\* character, "." (any character) and the quantifier "?" (optional; "??" lazy).
\* A word whose quantifier has nothing to repeat makes new RegExp throw.
RECURSIVE ParseAtoms(_, _)
ParseAtoms(word, i) ==
  IF i > Len(word) THEN <<>>
  ELSE LET opt == i + 1 <= Len(word) /\ Char(word, i + 1) = "?"
           lazy == opt /\ i + 2 <= Len(word) /\ Char(word, i + 2) = "?"
           next == IF lazy THEN i + 3 ELSE IF opt THEN i + 2 ELSE i + 1
       IN <<[ch |-> Char(word, i), opt |-> opt, lazy |-> lazy]>> \o ParseAtoms(word, next)

\* new RegExp(word, 'g') throws SyntaxError: Nothing to repeat
RECURSIVE RegExpThrowsFrom(_, _)
RegExpThrowsFrom(word, i) ==
  IF i > Len(word) THEN FALSE
  ELSE IF Char(word, i) = "?" THEN TRUE
  ELSE LET opt == i + 1 <= Len(word) /\ Char(word, i + 1) = "?"
           lazy == opt /\ i + 2 <= Len(word) /\ Char(word, i + 2) = "?"
       IN RegExpThrowsFrom(word, IF lazy THEN i + 3 ELSE IF opt THEN i + 2 ELSE i + 1)

RegExpThrows(word) == RegExpThrowsFrom(word, 1)

\* the end (exclusive) of the match of atoms[k..] at index i of content, -1 if none
RECURSIVE MatchEnd(_, _, _, _)
MatchEnd(content, i, atoms, k) ==
  IF k > Len(atoms) THEN i
  ELSE LET a == atoms[k]
           take == IF i <= Len(content) /\ (a.ch = "." \/ Char(content, i) = a.ch)
                   THEN MatchEnd(content, i + 1, atoms, k + 1) ELSE -1
           skip == MatchEnd(content, i, atoms, k + 1)
       IN IF ~a.opt THEN take
          ELSE IF a.lazy THEN (IF skip # -1 THEN skip ELSE take)
          ELSE (IF take # -1 THEN take ELSE skip)

\* (content.match(new RegExp(word, 'g')) || []).length, scanning from index i
RECURSIVE CountMatchesFrom(_, _, _)
CountMatchesFrom(content, i, atoms) ==
  IF i > Len(content) + 1 THEN 0
  ELSE LET e == MatchEnd(content, i, atoms, 1) IN
       IF e = -1 THEN CountMatchesFrom(content, i + 1, atoms)
       ELSE 1 + CountMatchesFrom(content, IF e = i THEN i + 1 ELSE e, atoms)

CountMatches(content, word) == CountMatchesFrom(content, 1, ParseAtoms(word, 1))

RECURSIVE SumMatches(_, _)
SumMatches(contentLower, queryWords) ==
  IF Len(queryWords) = 0 THEN 0
  ELSE CountMatches(contentLower, queryWords[1]) + SumMatches(contentLower, Tail(queryWords))

\* the score of one chunk: lines 114-124 of findRelevantChunks
ChunkScore(chunk, query) ==
  SumMatches(ToLowerCase(chunk.content), SplitSpace(ToLowerCase(query)))

\* whether scoring throws for this query against a non-empty corpus
ScoringThrows(query, processedData) ==
  /\ Len(processedData) > 0
  /\ \E i \in 1..Len(SplitSpace(ToLowerCase(query))) :
        RegExpThrows(SplitSpace(ToLowerCase(query))[i])

\* .filter(chunk => chunk.score > 0)
RECURSIVE PositiveScored(_, _, _)
PositiveScored(processedData, query, i) ==
  IF i > Len(processedData) THEN <<>>
  ELSE LET score == ChunkScore(processedData[i], query) IN
       (IF score > 0 THEN <<[url |-> processedData[i].url,
                             content |-> processedData[i].content,
                             score |-> score]>>
        ELSE <<>>) \o PositiveScored(processedData, query, i + 1)

\* InsertByScore as an unstable sort would do it: before its equals
RECURSIVE InsertByScoreUnstable(_, _)
InsertByScoreUnstable(sorted, c) ==
  IF Len(sorted) = 0 THEN <<c>>
  ELSE IF sorted[1].score > c.score
  THEN <<sorted[1]>> \o InsertByScoreUnstable(Tail(sorted), c)
  ELSE <<c>> \o sorted

\* insertion of one chunk into a list sorted by descending score, after its equals
RECURSIVE InsertByScore(_, _)
InsertByScore(sorted, c) ==
  IF Len(sorted) = 0 THEN <<c>>
  ELSE IF sorted[1].score >= c.score THEN <<sorted[1]>> \o InsertByScore(Tail(sorted), c)
  ELSE <<c>> \o sorted

\* .sort((a, b) => b.score - a.score): Array.prototype.sort is stable
RECURSIVE SortByScore(_)
SortByScore(cs) ==
  IF Len(cs) = 0 THEN <<>>
  ELSE InsertByScore(SortByScore(SubSeq(cs, 1, Len(cs) - 1)), cs[Len(cs)])

\* .slice(0, topK)
Take(cs, n) == SubSeq(cs, 1, IF n < Len(cs) THEN n ELSE Len(cs))

findRelevantChunks(query, topK, processedData) ==
  Take(SortByScore(PositiveScored(processedData, query, 1)), topK)

(***************************************************************************)
(* findRelevantChunks on every bounded query, corpus and topK              *)
(***************************************************************************)
MaxQueryLen == 3
MaxCorpusLen == 3
MaxTopK == 3

VARIABLES
  rtQuery,   \* findRelevantChunks: query
  rtTopK,    \* findRelevantChunks: topK
  rtData,    \* findRelevantChunks: processedData, as loadProcessedData returned it
  rtScores,  \* findRelevantChunks: the score of each chunk of scoredChunks
  rtOut,     \* findRelevantChunks: the array returned
  rtPc       \* "idle", "call", "returned" or "threw"

retrieveVars == <<rtQuery, rtTopK, rtData, rtScores, rtOut, rtPc>>

QueryAlphabet == {"a", " ", "?", "."}

RECURSIVE QueriesUpTo(_)
QueriesUpTo(n) ==
  IF n = 0 THEN {""}
  ELSE LET S == QueriesUpTo(n - 1) IN S \cup {s \o c : s \in S, c \in QueryAlphabet}

ChunkContents == {"a", "b a", "aAa"}

ChunkUrls == <<"u1", "u2", "u3", "u4", "u5">>

RECURSIVE ContentSeqsUpTo(_)
ContentSeqsUpTo(n) ==
  IF n = 0 THEN {<<>>}
  ELSE LET S == ContentSeqsUpTo(n - 1) IN S \cup {Append(cs, c) : cs \in S, c \in ChunkContents}

\* the corpora: chunk i of a corpus has the i-th url
Corpora ==
  {[i \in 1..Len(cs) |-> [url |-> ChunkUrls[i], content |-> cs[i]]] :
      cs \in ContentSeqsUpTo(MaxCorpusLen)}

RetrieveIdle ==
  /\ rtQuery = "" /\ rtTopK = 0 /\ rtData = <<>> /\ rtScores = <<>> /\ rtOut = <<>>
  /\ rtPc = "idle"

\* findRelevantChunks(query, topK) called, the processed data loaded: lines 107-112
RetrieveInit ==
  /\ rtQuery \in QueriesUpTo(MaxQueryLen)
  /\ rtTopK \in 0..MaxTopK
  /\ rtData \in Corpora
  /\ rtScores = <<>>
  /\ rtOut = <<>>
  /\ rtPc = "call"

\* lines 114-130: every chunk is scored, the result is filtered, sorted and cut
RetrieveReturns ==
  /\ rtPc = "call"
  /\ ~ScoringThrows(rtQuery, rtData)
  /\ rtScores' = [i \in 1..Len(rtData) |-> ChunkScore(rtData[i], rtQuery)]
  /\ rtOut' = findRelevantChunks(rtQuery, rtTopK, rtData)
  /\ rtPc' = "returned"
  /\ UNCHANGED <<rtQuery, rtTopK, rtData>>

\* line 119: new RegExp(word, 'g') throws on a query word
RetrieveThrows ==
  /\ rtPc = "call"
  /\ ScoringThrows(rtQuery, rtData)
  /\ rtPc' = "threw"
  /\ UNCHANGED <<rtQuery, rtTopK, rtData, rtScores, rtOut>>


(***************************************************************************)
(* The bot's inputs: chats, message texts, and what the collaborators      *)
(* (processed-content file, generation, price API) return                  *)
(***************************************************************************)
MaxMessages == 2

Chats == {"chatA"}

Texts ==
  {"How do I bridge funds?", "yes", "no", "hi what's the PEPU price?",
   "what's the PEPU market cap",
   "staking rewards", "How do I stake PEPU tokens?", "/start", ""}

\* what response.choices[0].message.content can be
Answers == {"You can bridge assets in the app.", "Happy to help."}

\* the answer of queryWithRelevantContext when no chunk is relevant
NoInfoAnswer ==
  "I couldn't find relevant information in the knowledge base to answer this question."

Undefined == "undefined"

\* what openai.chat.completions.create can throw
GenerationErrors ==
  {[message |-> "429 You exceeded your current quota", code |-> "insufficient_quota"],
   [message |-> "Connection error.", code |-> Undefined]}

\* the SyntaxError of new RegExp on a query word
RegExpError == [message |-> "Invalid regular expression: Nothing to repeat", code |-> Undefined]

\* the content of processed_content.json when it exists
Corpus ==
  <<[url |-> "https://pepeunchained.com/bridge", content |-> "Bridge assets to Pepe Unchained now."],
    [url |-> "https://pepeunchained.com/staking", content |-> "Stake PEPU tokens for staking rewards."]>>

\* loadProcessedData: the parsed file, or [] when reading it fails (lines 327-335)
LoadResults == {<<>>, Corpus}

(***************************************************************************)
(* Tables of the classifiers over the message texts                        *)
(***************************************************************************)
TextInfo ==
  [t \in Texts |->
     [greeting |-> handleGreeting(t),
      yes      |-> isYesResponse(t),
      no       |-> isNoResponse(t),
      price    |-> isPriceQuestion(t),
      newQ     |-> isNewQuestion(t),
      token    |-> isTokenQuestion(t),
      topK     |-> TopKFor(t)]]

IsTokenQuery(query) == IF query \in Texts THEN TextInfo[query].token ELSE isTokenQuestion(query)

TopKOf(query) == IF query \in Texts THEN TextInfo[query].topK ELSE TopKFor(query)

RelevantTable ==
  [t \in Texts, d \in LoadResults |->
     [throws |-> ScoringThrows(t, d),
      chunks |-> IF ScoringThrows(t, d) THEN <<>> ELSE findRelevantChunks(t, TextInfo[t].topK, d)]]

RelevantOf(query, data) ==
  IF query \in Texts THEN RelevantTable[query, data]
  ELSE [throws |-> ScoringThrows(query, data),
        chunks |-> IF ScoringThrows(query, data) THEN <<>>
                   ELSE findRelevantChunks(query, TopKFor(query), data)]

\* mainChunk.content.substring(0, 800): line 393
FallbackContentLimit == 800

\* `${index + 2}` for the additional sources: line 401
Decimal == <<"1", "2", "3", "4", "5">>

\* lines 398-403: the urls of the chunks after the first, numbered from 2
RECURSIVE AdditionalSources(_, _)
AdditionalSources(relevantChunks, k) ==
  IF k > Len(relevantChunks) THEN ""
  ELSE Decimal[k] \o ". " \o relevantChunks[k].url \o "\n"
         \o AdditionalSources(relevantChunks, k + 1)

\* FallbackAnswerText as it would be without the cut at 800 characters
FallbackAnswerTextUncut(relevantChunks) ==
  LET mainChunk == relevantChunks[1] IN
  "*Answer from Knowledge Base*\n\n" \o mainChunk.content \o "\n\n"
    \o "*Source:* " \o mainChunk.url \o "\n\n"
    \o (IF Len(relevantChunks) > 1
        THEN "*Additional Sources:*\n" \o AdditionalSources(relevantChunks, 2) ELSE "")

\* lines 388-405: the answer built from the relevant chunks (the emoji of the
\* heading left out)
FallbackAnswerText(relevantChunks) ==
  LET mainChunk == relevantChunks[1] IN
  "*Answer from Knowledge Base*\n\n"
    \o SubSeq(mainChunk.content, 1,
              IF Len(mainChunk.content) < FallbackContentLimit
              THEN Len(mainChunk.content) ELSE FallbackContentLimit)
    \o (IF Len(mainChunk.content) > FallbackContentLimit THEN "..." ELSE "") \o "\n\n"
    \o "*Source:* " \o mainChunk.url \o "\n\n"
    \o (IF Len(relevantChunks) > 1
        THEN "*Additional Sources:*\n" \o AdditionalSources(relevantChunks, 2) ELSE "")

\* getFallbackAnswer as it would be if the fallback never found an answer
getFallbackAnswerNone(query, data) == Null

\* getFallbackAnswer(query), lines 370-410: null when no chunk is relevant or
\* when the scoring throws (caught at line 406)
getFallbackAnswer(query, data) ==
  IF ScoringThrows(query, data) THEN Null
  ELSE LET relevantChunks == findRelevantChunks(query, FallbackTopKFor(query), data) IN
       IF Len(relevantChunks) = 0 THEN Null ELSE FallbackAnswerText(relevantChunks)

FallbackTable == [t \in Texts, d \in LoadResults |-> getFallbackAnswer(t, d)]

(***************************************************************************)
(* The quota branch with getFallbackAnswer, on every bounded result of the *)
(* fallback retrieval                                                      *)
(***************************************************************************)
\* topK of getFallbackAnswer is at most 3: line 376
MaxFallbackChunks == 3

VARIABLES
  fbChunks,  \* getFallbackAnswer: relevantChunks, as findRelevantChunks returned it
  fbThrows,  \* getFallbackAnswer: findRelevantChunks threw instead
  fbAnswer,  \* the value getFallbackAnswer returned
  fbSent,    \* the messages the quota branch has sent
  fbPc       \* "idle", "call", "returned" or "done"

fallbackVars == <<fbChunks, fbThrows, fbAnswer, fbSent, fbPc>>

RECURSIVE Repeat(_, _)
Repeat(str, n) == IF n = 0 THEN "" ELSE str \o Repeat(str, n - 1)

\* a chunk content longer than the 800 characters the fallback answer shows
LongContent == "Staking guide. " \o Repeat("Earn staking rewards. ", 36)

\* chunks of 32, 800 and 807 characters
FallbackChunks ==
  {[url |-> "https://pepeunchained.com/bridge", content |-> "Bridge assets to Pepe Unchained.", score |-> 1],
   [url |-> "https://pepeunchained.com/staking", content |-> SubSeq(LongContent, 1, 800), score |-> 1],
   [url |-> "https://guide.pepeunchained.com/staking", content |-> LongContent, score |-> 1]}

RECURSIVE ChunkSeqsUpTo(_)
ChunkSeqsUpTo(n) ==
  IF n = 0 THEN {<<>>}
  ELSE LET S == ChunkSeqsUpTo(n - 1) IN S \cup {Append(cs, c) : cs \in S, c \in FallbackChunks}

FallbackIdle ==
  fbChunks = <<>> /\ fbThrows = FALSE /\ fbAnswer = Null /\ fbSent = <<>> /\ fbPc = "idle"

\* the quota error is caught and getFallbackAnswer(text) called: lines 198-203
FallbackInit ==
  /\ fbChunks \in ChunkSeqsUpTo(MaxFallbackChunks)
  /\ fbThrows \in BOOLEAN
  /\ fbAnswer = Null
  /\ fbSent = <<>>
  /\ fbPc = "call"

\* getFallbackAnswer returns: lines 379-409
FallbackReturns ==
  /\ fbPc = "call"
  /\ fbAnswer' = IF fbThrows \/ Len(fbChunks) = 0 THEN Null ELSE FallbackAnswerText(fbChunks)
  /\ fbPc' = "returned"
  /\ UNCHANGED <<fbChunks, fbThrows, fbSent>>

\* lines 204-243: the fallback answer between its heading and the billing
\* information, or the quota error message
QuotaBranchSends ==
  /\ fbPc = "returned"
  /\ fbSent' = IF fbAnswer # Null THEN <<"fallbackHeader", fbAnswer, "billingInfo">>
               ELSE <<"quotaError">>
  /\ fbPc' = "done"
  /\ UNCHANGED <<fbChunks, fbThrows, fbAnswer>>

TopicTable == [t \in Texts, a \in Answers \cup {NoInfoAnswer} |-> extractMainTopic(t, a)]

TopicOf(query, answer) ==
  IF query \in Texts THEN TopicTable[query, answer] ELSE extractMainTopic(query, answer)


(***************************************************************************)
(* TelegramAIBot: state                                                    *)
(***************************************************************************)
VARIABLES
  conversationContext, \* this.conversationContext: chat -> context object (0: no entry)
  heap,                \* the context objects, by reference
  handlers             \* one record per message received, in arrival order

botVars == <<conversationContext, heap, handlers>>

\* the variables of the pure functions, which the bot's steps leave alone
pureVars == <<chunkVars, retrieveVars, classifyVars, fallbackVars, processVars, topicVars>>

vars == <<botVars, chunkVars, retrieveVars, classifyVars, fallbackVars, processVars, topicVars>>

\* {}: waitingForFollowUp is only tested for truth, so FALSE also stands for
\* undefined; askedTopics <<>> also stands for undefined (lines 136, 479 set [])
EmptyContext ==
  [lastTopic |-> Undefined, lastQuestion |-> Undefined,
   waitingForFollowUp |-> FALSE, askedTopics |-> <<>>]

\* JavaScript truth of a string-valued field
Truthy(v) == v \notin {Undefined, Null, ""}

\* the value stored for a chat: <<>> when the map has no entry
Snapshot(map, hp, c) == IF map[c] = 0 THEN <<>> ELSE <<hp[map[c]]>>

NewHandler(c, t) ==
  [chat |-> c, text |-> t, pc |-> "start", context |-> 0,
   query |-> Undefined, answer |-> Undefined, priceInfo |-> FALSE,
   branch |-> "none", error |-> "none", calls |-> <<>>, sent |-> <<>>,
   \* loads: what each read of the processed file returned; retrieved: the
   \* number of relevantChunks (-1 before the retrieval); sources: response.sources
   loads |-> <<>>, retrieved |-> -1, sources |-> <<>>,
   concurrent |-> \E j \in 1..Len(handlers) :
                     handlers[j].chat = c /\ handlers[j].pc # "done",
   before |-> Snapshot(conversationContext, heap, c), after |-> <<>>]

\* the handler returns: its record keeps the context it leaves behind
Settle(h, map, hp) ==
  IF h.pc = "done" THEN [h EXCEPT !.after = Snapshot(map, hp, h.chat)] ELSE h

Call(h, what) == [h EXCEPT !.calls = Append(@, what)]
Send(h, what) == [h EXCEPT !.sent = Append(@, what)]

BotInit ==
  /\ conversationContext = [c \in Chats |-> 0]
  /\ heap = <<>>
  /\ handlers = <<>>

(***************************************************************************)
(* processQuery, up to its first await: lines 440-465, and                 *)
(* queryWithRelevantContext up to the read of the processed file           *)
(***************************************************************************)
StartRetrieval(h) == [Call(h, "load") EXCEPT !.pc = "pqLoad"]

EnterProcessQuery(h, query) ==
  LET h1 == [h EXCEPT !.query = query] IN
  IF IsTokenQuery(query)
  THEN [Call(h1, "price") EXCEPT !.pc = "pqPrice"]
  ELSE StartRetrieval(h1)

\* lines 468-476: the answer is sent, processQuery awaits the send
SendAnswer(h, answer) ==
  [Send(h, "answer") EXCEPT !.answer = answer, !.pc = "pqSendAnswer"]

(***************************************************************************)
(* The catch block of the message handler: lines 186-244                   *)
(***************************************************************************)
isQuotaError(error) ==
  \/ Includes(error.message, "quota")
  \/ Includes(error.message, "429")
  \/ error.code = "insufficient_quota"

isMissingKnowledgeBase(error) ==
  Includes(error.message, "No processed data") \/ Includes(error.message, "ENOENT")

\* CatchError as it would be if the generic branch sent nothing
CatchErrorSilent(h, error) ==
  IF isQuotaError(error)
  THEN [Call(h, "load") EXCEPT !.error = "quota", !.pc = "fbLoad"]
  ELSE IF isMissingKnowledgeBase(error)
  THEN [Send(h, "kbMissing") EXCEPT !.error = "kbMissing", !.pc = "done"]
  ELSE [h EXCEPT !.error = "generic", !.pc = "done"]

\* a quota error starts the fallback (getFallbackAnswer awaits the file read);
\* any other error sends its message without awaiting and the handler returns
CatchError(h, error) ==
  IF isQuotaError(error)
  THEN [Call(h, "load") EXCEPT !.error = "quota", !.pc = "fbLoad"]
  ELSE IF isMissingKnowledgeBase(error)
  THEN [Send(h, "kbMissing") EXCEPT !.error = "kbMissing", !.pc = "done"]
  ELSE [Send(h, "genericError") EXCEPT !.error = "generic", !.pc = "done"]


(***************************************************************************)
(* bot.on('message'): a message arrives and its handler runs to its first  *)
(* await (lines 83-184).  The emitter does not wait for the promise of an  *)
(* earlier handler, so a message is received whatever the other handlers   *)
(* of the chat are doing.                                                  *)
(***************************************************************************)
\* lines 87-95: commands and messages without text are skipped
IsSkipped(t) == t = "" \/ StartsWith(t, "/") \/ Len(Trim(t)) = 0

\* line 115: the yes branch is taken
TakesYesBranch(t, context) ==
  TextInfo[t].yes /\ context.waitingForFollowUp /\ Truthy(context.lastTopic)

\* TakesNoBranch as it would be without the test of waitingForFollowUp
TakesNoBranchUnconditional(t, context) == TextInfo[t].no

\* line 151: the no branch is taken
TakesNoBranch(t, context) == TextInfo[t].no /\ context.waitingForFollowUp

\* lines 134-142: the yes branch's update of the context object
YesBranchUpdate(context) ==
  [context EXCEPT !.waitingForFollowUp = FALSE,
                  !.askedTopics = Append(@, ToLowerCase(context.lastTopic)),
                  !.lastTopic = Null]

\* Branch as it would be with the price test ahead of the greeting test
BranchPriceFirst(t, context) ==
  IF IsSkipped(t) THEN "skipped"
  ELSE IF TextInfo[t].price THEN "price"
  ELSE IF TextInfo[t].greeting # Null THEN "greeting"
  ELSE IF TakesYesBranch(t, context) THEN "yes"
  ELSE IF TakesNoBranch(t, context) THEN "no"
  ELSE "query"

\* Branch as it would be without the price test of line 158
BranchWithoutPrice(t, context) ==
  IF IsSkipped(t) THEN "skipped"
  ELSE IF TextInfo[t].greeting # Null THEN "greeting"
  ELSE IF TakesYesBranch(t, context) THEN "yes"
  ELSE IF TakesNoBranch(t, context) THEN "no"
  ELSE "query"

\* the branch of the handler a message takes, in the order of lines 87-184
Branch(t, context) ==
  IF IsSkipped(t) THEN "skipped"
  ELSE IF TextInfo[t].greeting # Null THEN "greeting"
  ELSE IF TakesYesBranch(t, context) THEN "yes"
  ELSE IF TakesNoBranch(t, context) THEN "no"
  ELSE IF TextInfo[t].price THEN "price"
  ELSE "query"

Receive(c, t) ==
  /\ Len(handlers) < MaxMessages
  /\ LET stored == conversationContext[c]
         \* line 104: the stored object, or a fresh {}
         context == IF stored # 0 THEN heap[stored] ELSE EmptyContext
         branch == Branch(t, context)
         h == [NewHandler(c, t) EXCEPT !.branch = branch]
         deleted == [conversationContext EXCEPT ![c] = 0]
         fresh == Len(heap) + 1
     IN
     CASE branch = "skipped" ->
       /\ handlers' = Append(handlers, [h EXCEPT !.pc = "done", !.after = h.before])
       /\ UNCHANGED <<conversationContext, heap>>
     [] branch = "greeting" ->
       /\ conversationContext' = deleted
       /\ handlers' = Append(handlers, [Send(h, TextInfo[t].greeting) EXCEPT !.pc = "sendFinal"])
       /\ UNCHANGED heap
     [] branch = "yes" ->
       /\ heap' = [heap EXCEPT ![stored] = YesBranchUpdate(context)]
       /\ conversationContext' = [conversationContext EXCEPT ![c] = stored]
       /\ handlers' = Append(handlers,
            EnterProcessQuery([h EXCEPT !.context = stored], FollowUpQuery(context.lastTopic)))
     [] branch = "no" ->
       /\ conversationContext' = deleted
       /\ handlers' = Append(handlers, [Send(h, "noAck") EXCEPT !.pc = "sendFinal"])
       /\ UNCHANGED heap
     [] branch = "price" ->
       /\ handlers' = Append(handlers, [Call(h, "price") EXCEPT !.pc = "price"])
       /\ UNCHANGED <<conversationContext, heap>>
     [] OTHER ->
       IF TextInfo[t].newQ \/ stored = 0 THEN
         \* lines 178-181 (or line 104 without an entry): a fresh context object
         /\ conversationContext' = IF TextInfo[t].newQ THEN deleted ELSE conversationContext
         /\ heap' = Append(heap, EmptyContext)
         /\ handlers' = Append(handlers, EnterProcessQuery([h EXCEPT !.context = fresh], t))
       ELSE
         /\ UNCHANGED <<conversationContext, heap>>
         /\ handlers' = Append(handlers, EnterProcessQuery([h EXCEPT !.context = stored], t))
  /\ UNCHANGED pureVars

\* an awaited sendMessage after which the handler only returns
\* (lines 110-111, 153-154, 168-172, 213-214, 512)
FinalSendReturns(i) ==
  /\ handlers[i].pc = "sendFinal"
  /\ handlers' = [handlers EXCEPT ![i] =
        Settle([@ EXCEPT !.pc = "done"], conversationContext, heap)]
  /\ UNCHANGED <<conversationContext, heap, pureVars>>

\* the price branch: getPEPUPrice settles, lines 160-173
PriceFetched(i, ok) ==
  /\ handlers[i].pc = "price"
  /\ handlers' = [handlers EXCEPT ![i] =
        IF ok THEN [Send(@, "price") EXCEPT !.pc = "sendPrice"]
        ELSE [Send(@, "priceError") EXCEPT !.pc = "sendFinal"]]
  /\ UNCHANGED <<conversationContext, heap, pureVars>>

\* the price response is sent: lines 163-165
PriceSent(i) ==
  /\ handlers[i].pc = "sendPrice"
  /\ conversationContext' = [conversationContext EXCEPT ![handlers[i].chat] = 0]
  /\ handlers' = [handlers EXCEPT ![i] =
        Settle([@ EXCEPT !.pc = "done"], conversationContext', heap)]
  /\ UNCHANGED <<heap, pureVars>>

\* TokenPriceFetched as it would be if a failed price fetch left processQuery
TokenPriceFetchedThrows(i, ok) ==
  /\ handlers[i].pc = "pqPrice"
  /\ handlers' = [handlers EXCEPT ![i] =
        IF ok THEN StartRetrieval([@ EXCEPT !.priceInfo = TRUE])
        ELSE Settle([Send(@, "genericError") EXCEPT !.error = "generic", !.pc = "done"],
                    conversationContext, heap)]
  /\ UNCHANGED <<conversationContext, heap, pureVars>>

\* processQuery: getPEPUPrice settles for a token question, lines 445-465
TokenPriceFetched(i, ok) ==
  /\ handlers[i].pc = "pqPrice"
  /\ handlers' = [handlers EXCEPT ![i] = StartRetrieval([@ EXCEPT !.priceInfo = ok])]
  /\ UNCHANGED <<conversationContext, heap, pureVars>>


\* AfterRetrieval as it would be if generation were called whatever was found
AfterRetrievalAlwaysGenerates(h, relevantChunks) ==
  [Call(h, "generate") EXCEPT !.retrieved = Len(relevantChunks), !.pc = "pqGen"]

\* queryWithRelevantContext after findRelevantChunks (agent lines 145-155):
\* with no relevant chunk the fixed answer is returned with sources [] and
\* without a generation call, and processQuery sends it (lines 468-476)
AfterRetrieval(h, relevantChunks) ==
  IF Len(relevantChunks) = 0
  THEN [SendAnswer(h, NoInfoAnswer) EXCEPT !.retrieved = 0, !.sources = <<>>]
  ELSE [Call(h, "generate") EXCEPT !.retrieved = Len(relevantChunks), !.pc = "pqGen"]

\* queryWithRelevantContext: the processed file is read and the chunks are
\* scored (agent lines 110-130)
CorpusLoaded(i, data) ==
  /\ handlers[i].pc = "pqLoad"
  /\ LET h == [handlers[i] EXCEPT !.loads = Append(@, data)]
         relevant == RelevantOf(h.query, data)
     IN handlers' = [handlers EXCEPT ![i] =
          IF relevant.throws
          THEN Settle(CatchError(h, RegExpError), conversationContext, heap)
          ELSE AfterRetrieval(h, relevant.chunks)]
  /\ UNCHANGED <<conversationContext, heap, pureVars>>

\* openai.chat.completions.create settles with an answer; the sources are the
\* urls of the relevant chunks (agent lines 200-201)
Generated(i, answer) ==
  /\ handlers[i].pc = "pqGen"
  /\ LET h == handlers[i]
         relevantChunks == RelevantOf(h.query, h.loads[1]).chunks
     IN handlers' = [handlers EXCEPT ![i] =
          [SendAnswer(h, answer) EXCEPT
             !.sources = [k \in 1..Len(relevantChunks) |-> relevantChunks[k].url]]]
  /\ UNCHANGED <<conversationContext, heap, pureVars>>

\* openai.chat.completions.create throws: the error leaves processQuery and
\* reaches the catch block of the handler
GenerationFailed(i, error) ==
  /\ handlers[i].pc = "pqGen"
  /\ handlers' = [handlers EXCEPT ![i] =
        Settle(CatchError(@, error), conversationContext, heap)]
  /\ UNCHANGED <<conversationContext, heap, pureVars>>

(***************************************************************************)
(* processQuery after the answer is sent: lines 478-516                    *)
(***************************************************************************)
\* lines 484-487: the current topic is pushed onto askedTopics
PushTopic(askedTopics, topic) ==
  IF topic # Null THEN Append(askedTopics, ToLowerCase(topic)) ELSE askedTopics

\* line 497
isGenericTopic(topic) ==
  topic # Null /\ ToLowerCase(topic) \in {"token", "dex", "blockchain", "network"}

\* alreadyAsked as it would be if the test came before the push of lines 484-487
alreadyAskedBeforePush(askedTopics, topic) ==
  topic # Null /\ SeqIncludes(SubSeq(askedTopics, 1, Len(askedTopics) - 1), ToLowerCase(topic))

\* alreadyAsked as it would be if the test were dropped
alreadyAskedNever(askedTopics, topic) == FALSE

\* line 498: context.askedTopics.includes(followUpTopic?.toLowerCase())
alreadyAsked(askedTopics, topic) ==
  topic # Null /\ SeqIncludes(askedTopics, ToLowerCase(topic))

\* line 503: context.lastQuestion?.toLowerCase().includes(followUpTopic.toLowerCase())
LastQuestionMentions(lastQuestion, topic) ==
  lastQuestion \notin {Undefined, Null}
    /\ Includes(ToLowerCase(lastQuestion), ToLowerCase(topic))

\* lines 500-503, on the context after the push of lines 484-487
OffersFollowUp(context, topic) ==
  /\ topic # Null
  /\ topic # context.lastTopic
  /\ ~alreadyAsked(context.askedTopics, topic)
  /\ ~(isGenericTopic(topic) /\ LastQuestionMentions(context.lastQuestion, topic))

AnswerSent(i) ==
  /\ handlers[i].pc = "pqSendAnswer"
  /\ LET h == handlers[i]
         topic == TopicOf(h.query, h.answer)
         pushed == [heap[h.context] EXCEPT !.askedTopics = PushTopic(@, topic)]
     IN
     IF OffersFollowUp(pushed, topic) THEN
       /\ heap' = [heap EXCEPT ![h.context] =
             [pushed EXCEPT !.lastTopic = topic, !.lastQuestion = h.query,
                            !.waitingForFollowUp = TRUE]]
       /\ conversationContext' = [conversationContext EXCEPT ![h.chat] = h.context]
       /\ handlers' = [handlers EXCEPT ![i] =
             [Send(h, "offer") EXCEPT !.pc = "sendFinal"]]
     ELSE
       /\ heap' = [heap EXCEPT ![h.context] = pushed]
       /\ conversationContext' = [conversationContext EXCEPT ![h.chat] = 0]
       /\ handlers' = [handlers EXCEPT ![i] =
             Settle([h EXCEPT !.pc = "done"], conversationContext', heap')]
  /\ UNCHANGED pureVars

(***************************************************************************)
(* The quota branch of the catch block: getFallbackAnswer, lines 198-226   *)
(***************************************************************************)
\* getFallbackAnswer(text) has read the processed file: lines 370-410.  An
\* error of the scoring is caught there and gives null, as no chunk does.
FallbackLoaded(i, data) ==
  /\ handlers[i].pc = "fbLoad"
  /\ LET h == [handlers[i] EXCEPT !.loads = Append(@, data)]
         fallbackAnswer == FallbackTable[h.text, data]
     IN handlers' = [handlers EXCEPT ![i] =
          IF fallbackAnswer # Null
          THEN [Send(h, "fallbackHeader") EXCEPT !.answer = fallbackAnswer, !.pc = "fbSend1"]
          ELSE Settle([Send(h, "quotaError") EXCEPT !.pc = "done"],
                      conversationContext, heap)]
  /\ UNCHANGED <<conversationContext, heap, pureVars>>

\* lines 207-214: the three awaited sends of the fallback
FallbackSent(i) ==
  /\ handlers[i].pc \in {"fbSend1", "fbSend2"}
  /\ handlers' = [handlers EXCEPT ![i] =
        IF @.pc = "fbSend1" THEN [Send(@, "fallbackAnswer") EXCEPT !.pc = "fbSend2"]
        ELSE [Send(@, "billingInfo") EXCEPT !.pc = "sendFinal"]]
  /\ UNCHANGED <<conversationContext, heap, pureVars>>

(***************************************************************************)
(* Specifications                                                          *)
(***************************************************************************)
Init == BotInit /\ ChunkIdle /\ RetrieveIdle /\ ClassifyIdle /\ FallbackIdle /\ ProcessIdle /\ TopicIdle

Next ==
  \/ \E c \in Chats, t \in Texts : Receive(c, t)
  \/ \E i \in 1..Len(handlers) : FinalSendReturns(i)
  \/ \E i \in 1..Len(handlers), ok \in BOOLEAN : PriceFetched(i, ok)
  \/ \E i \in 1..Len(handlers) : PriceSent(i)
  \/ \E i \in 1..Len(handlers), ok \in BOOLEAN : TokenPriceFetched(i, ok)
  \/ \E i \in 1..Len(handlers), data \in LoadResults : CorpusLoaded(i, data)
  \/ \E i \in 1..Len(handlers), answer \in Answers : Generated(i, answer)
  \/ \E i \in 1..Len(handlers), error \in GenerationErrors : GenerationFailed(i, error)
  \/ \E i \in 1..Len(handlers) : AnswerSent(i)
  \/ \E i \in 1..Len(handlers), data \in LoadResults : FallbackLoaded(i, data)
  \/ \E i \in 1..Len(handlers) : FallbackSent(i)

Spec == Init /\ [][Next]_vars

\* a suspended handler is resumed once the call it awaits settles, and every
\* awaited call settles: the steps of each handler are weakly fair
HandlerStep(i) ==
  /\ i <= Len(handlers)
  /\ \/ FinalSendReturns(i)
     \/ \E ok \in BOOLEAN : PriceFetched(i, ok)
     \/ PriceSent(i)
     \/ \E ok \in BOOLEAN : TokenPriceFetched(i, ok)
     \/ \E data \in LoadResults : CorpusLoaded(i, data)
     \/ \E answer \in Answers : Generated(i, answer)
     \/ \E error \in GenerationErrors : GenerationFailed(i, error)
     \/ AnswerSent(i)
     \/ \E data \in LoadResults : FallbackLoaded(i, data)
     \/ FallbackSent(i)

SpecLive == Init /\ [][Next]_vars /\ \A i \in 1..MaxMessages : WF_vars(HandlerStep(i))

\* chunkText on every bounded input
InitChunk == BotInit /\ ChunkInit /\ RetrieveIdle /\ ClassifyIdle /\ FallbackIdle /\ ProcessIdle /\ TopicIdle

NextChunk == (ChunkLoopStep \/ ChunkFinish) /\ UNCHANGED <<botVars, retrieveVars, classifyVars, fallbackVars, processVars, topicVars>>

SpecChunk == InitChunk /\ [][NextChunk]_vars

\* findRelevantChunks on every bounded input
InitRetrieve == BotInit /\ ChunkIdle /\ RetrieveInit /\ ClassifyIdle /\ FallbackIdle /\ ProcessIdle /\ TopicIdle

NextRetrieve ==
  (RetrieveReturns \/ RetrieveThrows) /\ UNCHANGED <<botVars, chunkVars, classifyVars, fallbackVars, processVars, topicVars>>

SpecRetrieve == InitRetrieve /\ [][NextRetrieve]_vars

\* detectQuestionType on every query of ClassifyQueries
InitClassify == BotInit /\ ChunkIdle /\ RetrieveIdle /\ ClassifyInit /\ FallbackIdle /\ ProcessIdle /\ TopicIdle

NextClassify == (Classify \/ RequestTopK) /\ UNCHANGED <<botVars, chunkVars, retrieveVars, fallbackVars, processVars, topicVars>>

SpecClassify == InitClassify /\ [][NextClassify]_vars

\* the quota branch on every bounded result of the fallback retrieval
InitFallback == BotInit /\ ChunkIdle /\ RetrieveIdle /\ ClassifyIdle /\ FallbackInit /\ ProcessIdle /\ TopicIdle

NextFallback ==
  (FallbackReturns \/ QuotaBranchSends)
    /\ UNCHANGED <<botVars, chunkVars, retrieveVars, classifyVars, processVars, topicVars>>

SpecFallback == InitFallback /\ [][NextFallback]_vars

\* processData on every bounded list of scraped pages
InitProcess ==
  BotInit /\ ChunkIdle /\ RetrieveIdle /\ ClassifyIdle /\ FallbackIdle /\ ProcessInit /\ TopicIdle

NextProcess ==
  (ProcessLoad \/ (\E chunks \in ChunkOutcomes : ProcessPage(chunks)) \/ ProcessSave)
    /\ UNCHANGED <<botVars, chunkVars, retrieveVars, classifyVars, fallbackVars, topicVars>>

SpecProcess == InitProcess /\ [][NextProcess]_vars

\* extractMainTopic on every query of TopicQueries and answer of TopicAnswers
InitTopic ==
  BotInit /\ ChunkIdle /\ RetrieveIdle /\ ClassifyIdle /\ FallbackIdle /\ ProcessIdle /\ TopicInit

NextTopic ==
  ExtractTopic
    /\ UNCHANGED <<botVars, chunkVars, retrieveVars, classifyVars, fallbackVars, processVars>>

SpecTopic == InitTopic /\ [][NextTopic]_vars


(***************************************************************************)
(* Properties of the message handler                                       *)
(***************************************************************************)
\* the handler has returned after sending an answer, without an error
Answered(h) == h.pc = "done" /\ h.error = "none" /\ h.answer # Undefined

\* the context processQuery was entered with
EntryContext(h) ==
  IF h.before = <<>> \/ (h.branch = "query" /\ TextInfo[h.text].newQ) THEN EmptyContext
  ELSE IF h.branch = "yes" THEN YesBranchUpdate(h.before[1])
  ELSE h.before[1]

\* the chat has no context with a pending follow-up after the handler
NotWaitingAfter(h) == h.after = <<>> \/ ~h.after[1].waitingForFollowUp

\* C1: for the messages "How do I bridge funds?" then "yes" on a fresh session,
\* both answered, the second message is processed as the bridge follow-up query
\* "How do I bridge assets to Pepe Unchained?" (not as "yes", not as
\* "Tell me more about bridge") and the session ends without waitingForFollowUp.
C1_YesRoundTrip ==
  (/\ Len(handlers) >= 2
   /\ handlers[1].text = "How do I bridge funds?"
   /\ handlers[1].before = <<>>
   /\ Answered(handlers[1])
   /\ SeqIncludes(handlers[1].calls, "generate")
   /\ handlers[2].text = "yes"
   /\ ~handlers[2].concurrent
   /\ Answered(handlers[2]))
  => /\ handlers[2].query = "How do I bridge assets to Pepe Unchained?"
     /\ NotWaitingAfter(handlers[2])

\* C2: a query answered by processQuery whose extracted topic is non-empty,
\* differs from the previous lastTopic, is not in askedTopics and is not a
\* generic topic re-offered right after its answer, gets the offer: the topic
\* is stored as lastTopic, waitingForFollowUp is true and the offer is sent.
C2_OfferAfterAnswer ==
  \A i \in 1..Len(handlers) :
    (/\ i = Len(handlers)
     /\ ~handlers[i].concurrent
     /\ Answered(handlers[i])
     /\ TopicOf(handlers[i].query, handlers[i].answer) # Null
     /\ TopicOf(handlers[i].query, handlers[i].answer) # EntryContext(handlers[i]).lastTopic
     /\ ~alreadyAsked(EntryContext(handlers[i]).askedTopics,
                      TopicOf(handlers[i].query, handlers[i].answer))
     /\ ~(/\ isGenericTopic(TopicOf(handlers[i].query, handlers[i].answer))
          /\ LastQuestionMentions(EntryContext(handlers[i]).lastQuestion,
                                  TopicOf(handlers[i].query, handlers[i].answer))))
    => /\ SeqIncludes(handlers[i].sent, "offer")
       /\ handlers[i].after # <<>>
       /\ handlers[i].after[1].waitingForFollowUp
       /\ handlers[i].after[1].lastTopic = TopicOf(handlers[i].query, handlers[i].answer)


\* the follow-up decision of processQuery has been taken for the handler
Decided(h) ==
  h.error = "none" /\ h.answer # Undefined /\ h.pc \in {"sendFinal", "done"}

PriceMessage(h) ==
  TextInfo[h.text].price /\ h.branch \notin {"skipped", "greeting", "yes", "no"}

C6_OneAtATime ==
  \A j \in 1..Len(handlers) :
    handlers[j].branch # "skipped" => ~handlers[j].concurrent

-----------------------------------------------------------------------------
\* Properties of chunkText

\* C9: every chunk returned by chunkText is at most maxChunkSize long, except a
\* chunk that consists of exactly one sentence unit (no overlap words) which is
\* itself longer than maxChunkSize.
C9_ChunkWithinMaxSize ==
  \A k \in 1..Len(ckChunks) :
    \/ Len(ckChunks[k]) <= ckMax
    \/ ckMeta[k].units = 1 /\ ~ckMeta[k].seeded

\* the text left after the last sentence unit the regular expression matches
RECURSIVE RemainderFrom(_, _)
RemainderFrom(s, i) ==
  LET p == SkipTerminators(s, i)
      q == SkipNonTerminators(s, p)
      r == SkipTerminators(s, q)
  IN IF p > Len(s) \/ q > Len(s) THEN SubSeq(s, p, Len(s))
     ELSE RemainderFrom(s, r)

\* the sentences of a text: its terminated units, then its unterminated last one
InputSentences(text) ==
  MatchSentencesFrom(text, 1)
    \o (IF Trim(RemainderFrom(text, 1)) # "" THEN <<RemainderFrom(text, 1)>> ELSE <<>>)

\* sentences s.. of units appear in full in chunks k.., in order
RECURSIVE CoveredFrom(_, _, _, _)
CoveredFrom(units, chunks, s, k) ==
  IF s > Len(units) THEN TRUE
  ELSE IF k > Len(chunks) THEN FALSE
  ELSE IF Includes(chunks[k], Trim(units[s])) THEN CoveredFrom(units, chunks, s + 1, k)
  ELSE CoveredFrom(units, chunks, s, k + 1)

\* C10: the chunks returned by chunkText, in order, cover the sentences of the
\* text in order with none dropped: every sentence appears in full in a chunk.
C10_ChunksCoverSentences ==
  ckPc = "done" => CoveredFrom(InputSentences(ckText), ckChunks, 1, 1)

-----------------------------------------------------------------------------
\* Properties of findRelevantChunks

\* the position of a returned chunk in the corpus
CorpusIndex(chunk) == CHOOSE k \in 1..Len(ChunkUrls) : ChunkUrls[k] = chunk.url

\* C11: findRelevantChunks returns its chunks by descending score, chunks of
\* equal score in corpus order: a chunk with 3 occurrences of the query term
\* comes before one with 1, and no chunk comes before a higher-scoring one.
C11_RankedByScore ==
  rtPc = "returned" =>
    \A i, j \in 1..Len(rtOut) :
      i < j =>
        /\ rtOut[i].score = rtScores[CorpusIndex(rtOut[i])]
        /\ rtOut[i].score >= rtOut[j].score
        /\ rtOut[i].score = rtOut[j].score => CorpusIndex(rtOut[i]) < CorpusIndex(rtOut[j])

\* query "a" on chunks with 1, 3 and 1 occurrences: the chunk with 3 first,
\* then the two with 1 in corpus order
C11_Witness ==
  /\ rtPc = "returned"
  /\ rtQuery = "a"
  /\ rtScores = <<1, 3, 1>>
  /\ rtOut = <<[url |-> "u2", content |-> "aAa", score |-> 3],
               [url |-> "u1", content |-> "a", score |-> 1],
               [url |-> "u3", content |-> "b a", score |-> 1]>>

\* the terms of a query: its lower-cased, whitespace-separated words
RECURSIVE NonEmpty(_)
NonEmpty(ws) ==
  IF Len(ws) = 0 THEN <<>>
  ELSE (IF ws[1] = "" THEN <<>> ELSE <<ws[1]>>) \o NonEmpty(Tail(ws))

QueryTerms(query) == NonEmpty(SplitWs(ToLowerCase(query)))

\* the occurrences of a term as a literal substring of content, from index i
RECURSIVE LiteralCountFrom(_, _, _)
LiteralCountFrom(content, term, i) ==
  IF i + Len(term) - 1 > Len(content) THEN 0
  ELSE IF SubSeq(content, i, i + Len(term) - 1) = term
  THEN 1 + LiteralCountFrom(content, term, i + Len(term))
  ELSE LiteralCountFrom(content, term, i + 1)

RECURSIVE LiteralSum(_, _)
LiteralSum(contentLower, terms) ==
  IF Len(terms) = 0 THEN 0
  ELSE LiteralCountFrom(contentLower, terms[1], 1) + LiteralSum(contentLower, Tail(terms))

\* the score of a chunk as the sum of the literal occurrences of the query's terms
LiteralScore(chunk, query) == LiteralSum(ToLowerCase(chunk.content), QueryTerms(query))

Min(a, b) == IF a < b THEN a ELSE b

\* C12: findRelevantChunks returns exactly min(topK, number of chunks with
\* score > 0) chunks, and no chunk without an occurrence of a query term.
C12_CountAndRelevance ==
  /\ rtPc # "threw"
  /\ rtPc = "returned" =>
       /\ Len(rtOut) =
            Min(rtTopK,
                Cardinality({i \in 1..Len(rtData) : LiteralScore(rtData[i], rtQuery) > 0}))
       /\ \A i \in 1..Len(rtOut) :
             \E k \in 1..Len(QueryTerms(rtQuery)) :
                Includes(ToLowerCase(rtOut[i].content), QueryTerms(rtQuery)[k])

\* C13: the score of every chunk is the sum, over the lower-cased
\* whitespace-separated terms of the query (duplicates kept), of the literal
\* occurrences of the term in the lower-cased content, for every query string.
C13_ScoreIsLiteralCount ==
  /\ rtPc # "threw"
  /\ rtPc = "returned" =>
       \A i \in 1..Len(rtData) : rtScores[i] = LiteralScore(rtData[i], rtQuery)

-----------------------------------------------------------------------------
\* Properties of the overlap of chunkText

\* the last n elements of ws, none when n = 0
LastWords(ws, n) == SubSeq(ws, Len(ws) - Min(n, Len(ws)) + 1, Len(ws))

\* C22: when chunkText closes a chunk on overflow, the next buffer is exactly
\* the last floor(overlap / 10) space-separated words of the closed buffer,
\* joined by spaces, then a space and the sentence that overflowed, for every
\* overlap >= 0; with overlap < 10 no word of the closed buffer is carried over.
C22_SeedIsLastWords ==
  (ckPc = "loop" /\ ckCurMeta.seeded /\ ckCurMeta.units = 1) =>
    ckCur = JoinSpace(LastWords(SplitSpace(ckCurMeta.closed), ckOverlap \div 10))
              \o " " \o ckCurMeta.trigger

-----------------------------------------------------------------------------
\* Properties of processData

\* C23: in every corpus processData produces, each chunk has
\* 0 <= chunkIndex < totalChunks and contentLength = length of content; the
\* chunks of one url share title and source tag, no two chunks have the same
\* url and chunkIndex, and every position 0..totalChunks-1 of a url is taken.
C23_CorpusWellFormed ==
  pdPc = "done" =>
    /\ \A i \in 1..Len(pdOut) :
          /\ 0 <= pdOut[i].chunkIndex
          /\ pdOut[i].chunkIndex < pdOut[i].totalChunks
          /\ pdOut[i].contentLength = Len(pdOut[i].content)
          /\ \A k \in 0..(pdOut[i].totalChunks - 1) :
                \E j \in 1..Len(pdOut) : pdOut[j].url = pdOut[i].url /\ pdOut[j].chunkIndex = k
    /\ \A i, j \in 1..Len(pdOut) :
          pdOut[i].url = pdOut[j].url =>
            /\ pdOut[i].title = pdOut[j].title
            /\ pdOut[i].source = pdOut[j].source
            /\ pdOut[i].totalChunks = pdOut[j].totalChunks
            /\ i # j => pdOut[i].chunkIndex # pdOut[j].chunkIndex

-----------------------------------------------------------------------------
\* Properties of detectQuestionType

\* C14: detectQuestionType tests the simple patterns first, then the complex
\* ones, and returns medium when neither matches; a query that matches both is
\* simple.  "What is PEPU?" and "Tell me about staking options" are simple,
\* "How do I stake PEPU tokens?" is complex.
C14_SimpleBeforeComplex ==
  dqPc = "done" =>
    LET q == ToLowerCase(dqQuery) IN
    /\ MatchesSimplePattern(q) => dqType = "simple"
    /\ (~MatchesSimplePattern(q) /\ MatchesComplexPattern(q)) => dqType = "complex"
    /\ (~MatchesSimplePattern(q) /\ ~MatchesComplexPattern(q)) => dqType = "medium"
    /\ dqQuery \in {"What is PEPU?", "Tell me about staking options"} => dqType = "simple"
    /\ dqQuery = "How do I stake PEPU tokens?" => dqType = "complex"

\* a query that matches a simple pattern ("explain ...") and a complex one
\* ("how to ...") has been classified simple
C14_Witness ==
  /\ dqPc = "done"
  /\ dqQuery = "Explain how to bridge"
  /\ MatchesSimplePattern(ToLowerCase(dqQuery))
  /\ MatchesComplexPattern(ToLowerCase(dqQuery))
  /\ dqType = "simple"

\* C21: retrieval is asked for 1 chunk for a simple query, 2 for a medium one
\* and 3 for a complex one, and for every query processQuery and
\* getFallbackAnswer ask for the same number.
C21_SameTopKOnBothPaths ==
  dqPc = "requested" =>
    /\ dqTopK = (CASE dqType = "simple" -> 1 [] dqType = "medium" -> 2 [] dqType = "complex" -> 3)
    /\ dqFallbackTopK = dqTopK

\* a complex query for which both paths ask for 3 chunks
C21_Witness ==
  /\ dqPc = "requested"
  /\ dqQuery = "How do I stake PEPU tokens?"
  /\ dqType = "complex"
  /\ dqTopK = 3
  /\ dqFallbackTopK = 3

-----------------------------------------------------------------------------
\* Properties of extractMainTopic

\* the topic of the list at position i occurs in the query or in the answer
TopicOccurs(i, lowerQuery, lowerAnswer) ==
  Includes(lowerQuery, Topics[i]) \/ Includes(lowerAnswer, Topics[i])

\* the word passes the stop-word, length and generic-word filters
Survives(w) == w \notin QuestionWords /\ Len(w) > 3 /\ w \notin GenericWords

\* C24: extractMainTopic returns the first topic of the ordered list that
\* occurs in the lower-cased query or answer; when that topic is dex or
\* blockchain and the query contains "how do i use" it returns no topic; only
\* when no topic of the list occurs it returns the first word of the query
\* that passes the stop-word, length (> 3) and generic-word filters, or no topic.
C24_FirstListedTopic ==
  tpPc = "done" =>
    LET lowerQuery == ToLowerCase(tpQuery)
        lowerAnswer == ToLowerCase(tpAnswer)
        hits == {i \in 1..Len(Topics) : TopicOccurs(i, lowerQuery, lowerAnswer)}
        words == SplitWs(lowerQuery)
        kept == {k \in 1..Len(words) : Survives(words[k])}
    IN IF hits # {}
       THEN LET first == CHOOSE i \in hits : \A j \in hits : i <= j IN
            IF Topics[first] \in {"dex", "blockchain"} /\ Includes(lowerQuery, "how do i use")
            THEN tpTopic = Null
            ELSE tpTopic = Topics[first]
       ELSE IF kept # {}
       THEN tpTopic = words[CHOOSE k \in kept : \A j \in kept : k <= j]
       ELSE tpTopic = Null

\* "trading" of the answer precedes "dex" of the query in the list, so the
\* how-to-use query about the DEX gets the topic trading
C24_Witness ==
  /\ tpPc = "done"
  /\ tpQuery = "How do I use the DEX?"
  /\ tpAnswer = "Use the DEX for trading."
  /\ tpTopic = "trading"

-----------------------------------------------------------------------------
\* Properties of the branches of the message handler

\* C15: a message that handleGreeting recognises (greeting, thanks, farewell,
\* small talk) takes the greeting branch before every other rule: the handler
\* sends the canned text and nothing else, leaves no context stored for the
\* chat, and calls neither the price fetch, retrieval nor generation.
C15_GreetingFirst ==
  \A i \in 1..Len(handlers) :
    (TextInfo[handlers[i].text].greeting # Null /\ ~IsSkipped(handlers[i].text)) =>
      /\ handlers[i].branch = "greeting"
      /\ handlers[i].calls = <<>>
      /\ handlers[i].sent = <<TextInfo[handlers[i].text].greeting>>
      /\ handlers[i].pc = "done" => handlers[i].after = <<>>

\* a greeting that is also a price question and a new question, received after
\* an earlier message of the chat, was answered with the canned text only
C15_Witness ==
  \E i \in 2..Len(handlers) :
    /\ handlers[i].pc = "done"
    /\ TextInfo[handlers[i].text].greeting = "greeting"
    /\ TextInfo[handlers[i].text].price /\ TextInfo[handlers[i].text].newQ
    /\ handlers[i].sent = <<"greeting">>
    /\ handlers[i].calls = <<>>
    /\ handlers[i].after = <<>>

\* the price fetch of a price question has failed and the handler has returned
PriceFetchFailed(h) ==
  h.branch = "price" /\ h.pc = "done" /\ ~SeqIncludes(h.sent, "price")

CorpusWasMissing(h) ==
  /\ h.branch = "query" /\ h.pc = "done" /\ h.error = "none"
  /\ ~RelevantOf(h.query, Corpus).throws
  /\ Len(RelevantOf(h.query, Corpus).chunks) > 0
  /\ ~SeqIncludes(h.calls, "generate")

\* C19: when the processed-content file is missing or unreadable, a question
\* is answered with the knowledge-base-not-found instructions, not with an
\* ordinary or "no information" answer.
C19_MissingCorpusSurfaced ==
  \A i \in 1..Len(handlers) :
    CorpusWasMissing(handlers[i]) =>
      /\ handlers[i].sent = <<"kbMissing">>
      /\ handlers[i].answer = Undefined

-----------------------------------------------------------------------------
\* Properties of the quota branch

\* C20: on a quota error the fallback is tried before any error message.  With
\* at least one chunk from the fallback retrieval the user gets the fallback
\* answer and not the quota error: the content of the top chunk, cut at 800
\* characters and followed by "..." when it is longer, its source and the
\* sources of the other chunks.  With no chunk the fallback gives no answer and
\* the quota error message is sent.
C20_FallbackBeforeQuotaError ==
  fbPc = "done" =>
    IF ~fbThrows /\ Len(fbChunks) >= 1
    THEN LET content == fbChunks[1].content IN
         /\ fbSent = <<"fallbackHeader", fbAnswer, "billingInfo">>
         /\ fbAnswer # Null
         /\ Len(content) <= 800 => Includes(fbAnswer, content \o "\n")
         /\ Len(content) > 800 =>
              /\ Includes(fbAnswer, SubSeq(content, 1, 800) \o "...")
              /\ ~Includes(fbAnswer, SubSeq(content, 1, 801))
         /\ \A k \in 1..Len(fbChunks) : Includes(fbAnswer, fbChunks[k].url)
    ELSE fbAnswer = Null /\ fbSent = <<"quotaError">>

\* the fallback answer was sent for a top chunk of 807 characters, cut at 800,
\* with the sources of two more chunks
C20_Witness ==
  /\ fbPc = "done"
  /\ Len(fbChunks) = 3
  /\ Len(fbChunks[1].content) = 807
  /\ fbSent = <<"fallbackHeader", fbAnswer, "billingInfo">>
  /\ Includes(fbAnswer, SubSeq(fbChunks[1].content, 1, 800) \o "...")
  /\ Includes(fbAnswer, "2. " \o fbChunks[2].url)
  /\ Includes(fbAnswer, "3. " \o fbChunks[3].url)

-----------------------------------------------------------------------------
\* Properties of retrieval, generation and the session context in the handler

\* C26: when retrieval returns zero chunks, queryWithRelevantContext does not
\* call the generation and returns the fixed "couldn't find relevant
\* information" answer with an empty source list; this is no error and the
\* handler sends that answer to the user.
C26_NoChunksNoGeneration ==
  \A i \in 1..Len(handlers) :
    LET h == handlers[i] IN
    h.retrieved = 0 =>
      /\ ~SeqIncludes(h.calls, "generate")
      /\ h.answer = NoInfoAnswer
      /\ h.sources = <<>>
      /\ h.error = "none"
      /\ h.sent = <<"answer">>

\* "yes" found no chunk in the loaded corpus: the fixed answer was sent and the
\* handler returned
C26_Witness ==
  \E i \in 1..Len(handlers) :
    LET h == handlers[i] IN
    /\ h.text = "yes"
    /\ h.loads = <<Corpus>>
    /\ h.retrieved = 0
    /\ h.answer = NoInfoAnswer
    /\ h.sent = <<"answer">>
    /\ h.pc = "done"

C28_QuotaAfterRetrievalFallsBack ==
  \A i \in 1..Len(handlers) :
    LET h == handlers[i] IN
    (h.error = "quota" /\ SeqIncludes(h.calls, "generate")) =>
      /\ h.retrieved >= 1
      /\ (Len(h.loads) = 2 /\ h.loads[2] = h.loads[1]) =>
           /\ ~SeqIncludes(h.sent, "quotaError")
           /\ h.answer # Undefined
           /\ h.pc = "done" => h.sent = <<"fallbackHeader", "fallbackAnswer", "billingInfo">>

\* the generation failed on quota for the bridge question, the corpus read the
\* same twice, and the three messages of the fallback were sent
C28_Witness ==
  \E i \in 1..Len(handlers) :
    LET h == handlers[i] IN
    /\ h.text = "How do I bridge funds?"
    /\ h.error = "quota"
    /\ h.calls = <<"load", "generate", "load">>
    /\ h.loads = <<Corpus, Corpus>>
    /\ h.pc = "done"
    /\ h.sent = <<"fallbackHeader", "fallbackAnswer", "billingInfo">>

\* C29: a yes or no response received while the session has no pending
\* follow-up is not consumed as a reply: no acknowledgement is sent and no
\* follow-up query is made up; the text goes on to the price test and is then
\* processed as an ordinary query through retrieval and generation.
C29_YesNoWithoutPendingIsQuery ==
  \A i \in 1..Len(handlers) :
    LET h == handlers[i] IN
    ((TextInfo[h.text].yes \/ TextInfo[h.text].no)
       /\ (h.before = <<>> \/ ~h.before[1].waitingForFollowUp)) =>
      /\ h.branch \in {"price", "query"}
      /\ h.branch = "price" <=> TextInfo[h.text].price
      /\ ~SeqIncludes(h.sent, "noAck")
      /\ h.branch = "query" =>
           /\ h.query = h.text
           /\ h.calls[1] = (IF TextInfo[h.text].token THEN "price" ELSE "load")
           /\ (h.pc = "done" /\ h.error = "none") =>
                /\ h.sent = <<"answer">>
                /\ h.retrieved >= 1 <=> SeqIncludes(h.calls, "generate")

\* "no" on a fresh session went through retrieval and generation and got a
\* generated answer, with no acknowledgement
C29_Witness ==
  \E i \in 1..Len(handlers) :
    LET h == handlers[i] IN
    /\ h.text = "no"
    /\ h.before = <<>>
    /\ h.branch = "query"
    /\ h.query = "no"
    /\ h.calls = <<"load", "generate">>
    /\ h.answer \in Answers
    /\ h.sent = <<"answer">>
    /\ h.pc = "done"

\* the price fetch of processQuery has failed for the handler
TokenPriceFailed(h) ==
  h.branch = "query" /\ h.calls # <<>> /\ h.calls[1] = "price" /\ h.pc # "pqPrice" /\ ~h.priceInfo

\* C30: for a token question in processQuery a failed price fetch is absorbed:
\* retrieval and generation still run, the answer is sent without the price
\* line and no error message is sent because of the price; the price fetch
\* comes before the generation and never changes the context of the session.
C30_TokenPriceFailureAbsorbed ==
  /\ [](\A i \in 1..Len(handlers) :
          LET h == handlers[i] IN
          /\ SeqIncludes(h.calls, "generate") /\ TextInfo[h.text].token /\ h.branch = "query"
               => h.calls[1] = "price"
          /\ TokenPriceFailed(h) =>
               /\ Len(h.calls) >= 2
               /\ h.calls[2] = "load"
               /\ ~SeqIncludes(h.sent, "priceError")
               /\ h.retrieved >= 1 => SeqIncludes(h.calls, "generate")
               /\ (h.pc = "done" /\ h.error = "none") => h.sent = <<"answer">>
               /\ h.error = "none" => ~SeqIncludes(h.sent, "genericError"))
  /\ [][\A i \in 1..Len(handlers) :
          (handlers[i].pc = "pqPrice" /\ handlers'[i].pc # "pqPrice")
            => UNCHANGED <<conversationContext, heap>>]_vars

\* the price fetch failed for "How do I stake PEPU tokens?", the answer was
\* generated and sent without the price line, and nothing else was sent
C30_Witness ==
  \E i \in 1..Len(handlers) :
    LET h == handlers[i] IN
    /\ h.text = "How do I stake PEPU tokens?"
    /\ h.calls = <<"price", "load", "generate">>
    /\ ~h.priceInfo
    /\ h.answer \in Answers
    /\ h.sent = <<"answer">>
    /\ h.error = "none"
    /\ h.pc = "done"

=============================================================================
